---- MODULE Spec2Model ----
(***************************************************************************)
(* Model of enrichMetadata.py (Metadata-Historical-Land-Registry-Basel):   *)
(* get_new_house_number, split_old_house_number, get_first_entry,          *)
(* correct_old_house_number and the enrichment run of __main__.            *)
(*                                                                         *)
(* A text is a sequence of one-character strings.  A Python value is a     *)
(* tagged record (None, NaN, str, bool, int, list, tuple).  A call either  *)
(* returns a value or raises; a raised exception is the record Raise(e).   *)
(***************************************************************************)
EXTENDS Integers, Sequences, FiniteSets, TLC

VARIABLES pc, args, ret, ret2, all_dossiers, corrections, row, applied
vars == <<pc, args, ret, ret2, all_dossiers, corrections, row, applied>>

(***************************************************************************)
(* Python values                                                           *)
(***************************************************************************)
None == [t |-> "None"]
NaN == [t |-> "nan"]
Str(s) == [t |-> "str", v |-> s]
Bool(b) == [t |-> "bool", v |-> b]
PyInt(digits) == [t |-> "int", v |-> digits]
List(l) == [t |-> "list", v |-> l]
Tuple(l) == [t |-> "tuple", v |-> l]
Raise(e) == [t |-> "raise", v |-> e]

IsRaise(x) == x.t = "raise"
IsStr(x) == x.t = "str"
IsList(x) == x.t = "list"

Range(f) == {f[n] : n \in DOMAIN f}

\* pd.isna / pd.notnull of a scalar
isna(x) == x.t \in {"None", "nan"}

\* list of str values from a sequence of texts
StrList(texts) == List([n \in DOMAIN texts |-> Str(texts[n])])

(***************************************************************************)
(* Character classes of the regular expressions in the source              *)
(***************************************************************************)
Digit == {"0", "1", "2", "3", "4", "5", "6", "7", "8", "9"}
Lower == {"a", "b", "c", "d", "e", "f", "g", "h", "i", "j", "k", "l", "m",
          "n", "o", "p", "q", "r", "s", "t", "u", "v", "w", "x", "y", "z"}
Upper == {"A", "B", "C", "D", "E", "F", "G", "H", "I", "J", "K", "L", "M",
          "N", "O", "P", "Q", "R", "S", "T", "U", "V", "W", "X", "Y", "Z"}
Alpha == Lower \cup Upper
\* \s
Space == {" ", "\t", "\n", "\r", "\f"}

(***************************************************************************)
(* Regular expressions as syntax trees, and Python's backtracking matcher. *)
(* Ends(r, s, i) lists the positions at which a match of r that starts at  *)
(* position i of s can end, in the order in which the backtracking engine  *)
(* of module re tries them (greedy quantifiers first, alternatives left to *)
(* right); the first entry is the match re reports.                        *)
(***************************************************************************)
Cls(cs) == [k |-> "cls", cs |-> cs]
Chr(c) == Cls({c})
AnyChar == [k |-> "any"]
Bol == [k |-> "bol"]
Eol == [k |-> "eol"]
Cat(rs) == [k |-> "seq", rs |-> rs]
Alt(rs) == [k |-> "alt", rs |-> rs]
Opt(r) == [k |-> "opt", r |-> r]
Star(r) == [k |-> "star", r |-> r]
Plus(r) == [k |-> "plus", r |-> r]
\* a pattern text without metacharacters other than "." (any character)
Lit(t) == Cat([n \in DOMAIN t |-> IF t[n] = "." THEN AnyChar ELSE Chr(t[n])])
\* a pattern text matched literally (escaped metacharacters)
Esc(t) == Cat([n \in DOMAIN t |-> Chr(t[n])])

\* a followed by the entries of b that a does not hold (priority order kept)
Merge(a, b) == a \o SelectSeq(b, LAMBDA x : x \notin Range(a))

\* "$": at the end of the text or before a final newline
AtEol(s, i) == i = Len(s) \/ (i = Len(s) - 1 /\ s[Len(s)] = "\n")

RECURSIVE Ends(_, _, _), ThenEnds(_, _, _, _), AltEnds(_, _, _, _), StarEnds(_, _, _), StarFrom(_, _, _, _, _)
Ends(r, s, i) ==
    CASE r.k = "cls" -> IF i < Len(s) /\ s[i + 1] \in r.cs THEN <<i + 1>> ELSE <<>>
      [] r.k = "any" -> IF i < Len(s) /\ s[i + 1] # "\n" THEN <<i + 1>> ELSE <<>>
      [] r.k = "bol" -> IF i = 0 THEN <<i>> ELSE <<>>
      [] r.k = "eol" -> IF AtEol(s, i) THEN <<i>> ELSE <<>>
      [] r.k = "seq" -> ThenEnds(r.rs, 1, s, <<i>>)
      [] r.k = "alt" -> AltEnds(r.rs, 1, s, i)
      [] r.k = "opt" -> Merge(Ends(r.r, s, i), <<i>>)
      [] r.k = "star" -> StarEnds(r.r, s, i)
      [] r.k = "plus" -> StarFrom(r.r, s, i, Ends(r.r, s, i), 1)

\* rs[n..] matched one after the other from each of the positions in starts
ThenEnds(rs, n, s, starts) ==
    IF n > Len(rs) THEN starts
    ELSE LET StepFrom[m \in 0..Len(starts)] ==
                 IF m = 0 THEN <<>>
                 ELSE Merge(StepFrom[m - 1], Ends(rs[n], s, starts[m]))
         IN ThenEnds(rs, n + 1, s, StepFrom[Len(starts)])

AltEnds(rs, n, s, i) ==
    IF n > Len(rs) THEN <<>>
    ELSE Merge(Ends(rs[n], s, i), AltEnds(rs, n + 1, s, i))

\* greedy r*: one more iteration is tried before stopping
StarEnds(r, s, i) ==
    Merge(StarFrom(r, s, i, SelectSeq(Ends(r, s, i), LAMBDA e : e > i), 1), <<i>>)

\* r* continued from each of the positions firsts[n..]
StarFrom(r, s, i, firsts, n) ==
    IF n > Len(firsts) THEN <<>>
    ELSE Merge(StarEnds(r, s, firsts[n]), StarFrom(r, s, i, firsts, n + 1))

(***************************************************************************)
(* Module re: match, search, split.  A match is [start, end] (the text     *)
(* s[start+1..end]) or NoMatch.                                            *)
(***************************************************************************)
NoMatch == [start |-> -1, end |-> -1]
Sub(s, a, b) == [n \in 1..(b - a) |-> s[a + n]]
group(s, m) == Sub(s, m.start, m.end)

\* the match that starts at i, given the ends the engine finds from i
MatchAt(i, ends) == IF ends = <<>> THEN NoMatch ELSE [start |-> i, end |-> ends[1]]

re_match(r, s) == MatchAt(0, Ends(r, s, 0))

RECURSIVE SearchFrom(_, _, _), SearchStep(_, _, _, _)
\* the leftmost match that starts at i or later
SearchFrom(r, s, i) == IF i > Len(s) THEN NoMatch ELSE SearchStep(r, s, i, Ends(r, s, i))
SearchStep(r, s, i, ends) == IF ends = <<>> THEN SearchFrom(r, s, i + 1) ELSE MatchAt(i, ends)

re_search(r, s) == SearchFrom(r, s, 0)

\* re.split(r, s, maxsplit); maxsplit = 0 means no limit.  The patterns the
\* source splits on match at least one character.
RECURSIVE SplitFrom(_, _, _, _), SplitStep(_, _, _, _, _)
SplitFrom(r, s, p, left) == SplitStep(r, s, p, left, SearchFrom(r, s, p))
SplitStep(r, s, p, left, m) ==
    IF left = 0 \/ m = NoMatch \/ m.end = m.start THEN <<Sub(s, p, Len(s))>>
    ELSE <<Sub(s, p, m.start)>> \o SplitFrom(r, s, m.end, left - 1)

re_split(r, s, maxsplit) == SplitFrom(r, s, 0, IF maxsplit = 0 THEN -1 ELSE maxsplit)

(***************************************************************************)
(* str methods and sequence indexing                                       *)
(***************************************************************************)
\* the letters str.isalpha accepts among the characters of the model's texts
Letter == Alpha \cup {"ä", "ö", "ü"}
isalpha(t) == t # <<>> /\ \A n \in DOMAIN t : t[n] \in Letter
isnumeric(t) == t # <<>> /\ \A n \in DOMAIN t : t[n] \in Digit

\* l[k] with Python's 0-based index k >= 0; the caller tests InRange first,
\* an index out of range raises IndexError
InRange(l, k) == k < Len(l)
At(l, k) == l[k + 1]
\* l[-1], l[:-1], l[k:]
Last(l) == l[Len(l)]
ButLast(l) == Sub(l, 0, Len(l) - 1)
From(l, k) == Sub(l, k, Len(l))

(***************************************************************************)
(* re.compile of a text used as a pattern (re.search(number_split[k], ..)).*)
(* The texts of the model hold the metacharacters "." "(" ")" and "+";     *)
(* every other character of the model's texts is a literal.  A repeat of a *)
(* repeat ("++") is taken as the error "multiple repeat".                  *)
(***************************************************************************)
NoPattern == [err |-> TRUE, r |-> Cat(<<>>), next |-> 0]

RECURSIVE ParseItems(_, _, _, _), AfterGroup(_, _, _)
\* parses t from position i (0-based) up to a ")" or the end; items are the
\* pieces parsed so far, rep says that the last piece is a repeat
ParseItems(t, i, items, rep) ==
    IF i >= Len(t) \/ t[i + 1] = ")" THEN [err |-> FALSE, r |-> Cat(items), next |-> i]
    ELSE IF t[i + 1] = "(" THEN AfterGroup(t, items, ParseItems(t, i + 1, <<>>, FALSE))
    ELSE IF t[i + 1] = "+"
    THEN IF items = <<>> \/ rep THEN NoPattern
         ELSE ParseItems(t, i + 1, Append(ButLast(items), Plus(Last(items))), TRUE)
    ELSE IF t[i + 1] = "." THEN ParseItems(t, i + 1, Append(items, AnyChar), FALSE)
    ELSE ParseItems(t, i + 1, Append(items, Chr(t[i + 1])), FALSE)

\* sub is the inside of a group; its ")" has to follow
AfterGroup(t, items, sub) ==
    IF sub.err \/ sub.next >= Len(t) THEN NoPattern
    ELSE ParseItems(t, sub.next + 1, Append(items, sub.r), FALSE)

\* [err, r]: err when re.compile raises re.error (an unbalanced parenthesis,
\* nothing to repeat)
Compiled(t, p) == IF p.err \/ p.next < Len(t) THEN NoPattern ELSE p
re_compile(t) == Compiled(t, ParseItems(t, 0, <<>>, FALSE))

(***************************************************************************)
(* split_old_house_number                                                  *)
(***************************************************************************)
Series(l) == [t |-> "Series", v |-> l]

ws == Cls(Space)
\* [0-9]+\s?[a-zA-Z]?
NumberRe == <<Plus(Cls(Digit)), Opt(ws), Opt(Cls(Alpha))>>
\* (Th. v.|Theil von|Theil v.|Th. von)
PrefixRe == Alt(<<Lit(<<"T", "h", ".", " ", "v", ".">>),
                  Lit(<<"T", "h", "e", "i", "l", " ", "v", "o", "n">>),
                  Lit(<<"T", "h", "e", "i", "l", " ", "v", ".">>),
                  Lit(<<"T", "h", ".", " ", "v", "o", "n">>)>>)
\* Th. v.\s|Theil von\s|Theil v.\s|Th. von\s
PrefixSplitRe == <<Cat(<<Lit(<<"T", "h", ".", " ", "v", ".">>), ws>>),
                   Cat(<<Lit(<<"T", "h", "e", "i", "l", " ", "v", "o", "n">>), ws>>),
                   Cat(<<Lit(<<"T", "h", "e", "i", "l", " ", "v", ".">>), ws>>),
                   Cat(<<Lit(<<"T", "h", ".", " ", "v", "o", "n">>), ws>>)>>
CommaRe == Cat(<<Chr(","), ws>>)
SlashRe == Cat(<<ws, Chr("/"), ws>>)
PlusRe == Cat(<<ws, Chr("+"), ws>>)
UndRe == Cat(<<ws, Chr("u"), Chr("."), ws>>)
NebenRe == Esc(<<"n", "e", "b", "e", "n">>)
BannParenRe == Cat(<<ws, Esc(<<"(", "B", "a", "n", "n", ")">>)>>)

\* r"(Bann)|(bann)"
BannRe == Alt(<<Esc(<<"B", "a", "n", "n">>), Esc(<<"b", "a", "n", "n">>)>>)
\* r"^([0-9]+\s?[a-zA-Z]?(,\s|\s/\s|\s\+\s|\su\.\s)?)+$"
SimpleRe == Cat(<<Bol, Plus(Cat(NumberRe \o <<Opt(Alt(<<CommaRe, SlashRe, PlusRe, UndRe>>))>>)), Eol>>)
\* the split pattern without the separator " u. "
SimpleSplitRe_NoUnd == Alt(<<CommaRe, SlashRe, PlusRe>>)
\* r",\s|\s/\s|\s\+\s|\su\.\s"
SimpleSplitRe == Alt(<<CommaRe, SlashRe, PlusRe, UndRe>>)
\* r"^([0-9]+\s?[a-zA-Z]?(,\s|\s/\s)?)+\s\(Bann\)$"
BannPostfixRe == Cat(<<Bol, Plus(Cat(NumberRe \o <<Opt(Alt(<<CommaRe, SlashRe>>))>>)), BannParenRe, Eol>>)
\* r",\s|\s/\s|\s\(Bann\)"
BannPostfixSplitRe == Alt(<<CommaRe, SlashRe, BannParenRe>>)
\* r"^[0-9]+\s?[a-zA-Z]?.+$"
PostfixRe == Cat(<<Bol>> \o NumberRe \o <<Plus(AnyChar), Eol>>)
\* r"^[0-9]+\s?([a-zA-Z](\s|,))?"
PostfixNumberRe == Cat(<<Bol, Plus(Cls(Digit)), Opt(ws), Opt(Cat(<<Cls(Alpha), Alt(<<ws, Chr(",")>>)>>))>>)
\* r",$|\s$"
TrailingRe == Alt(<<Cat(<<Chr(","), Eol>>), Cat(<<ws, Eol>>)>>)
\* r"^(Th. v.|Theil von|Theil v.|Th. von)\s([0-9]+\s?[a-zA-Z]?(,\s)*)+(\sneben)?\s?[0-9]*\s?[a-zA-Z]?$"
PartOfRe == Cat(<<Bol, PrefixRe, ws, Plus(Cat(NumberRe \o <<Star(CommaRe)>>)), Opt(Cat(<<ws, NebenRe>>)),
                  Opt(ws), Star(Cls(Digit)), Opt(ws), Opt(Cls(Alpha)), Eol>>)
\* r"Th. v.\s|Theil von\s|Theil v.\s|Th. von\s|\sneben\s|,\s"
PartOfSplitRe == Alt(PrefixSplitRe \o <<Cat(<<ws, NebenRe, ws>>), CommaRe>>)
\* r"^(Th. v.|Theil von|Theil v.|Th. von)\s[0-9]+\s?[a-zA-Z]?.+$"
PartOfPostfixRe == Cat(<<Bol, PrefixRe, ws>> \o NumberRe \o <<Plus(AnyChar), Eol>>)
\* r"Th. v.\s|Theil von\s|Theil v.\s|Th. von\s|,\s|\s"
PartOfPostfixSplitRe == Alt(PrefixSplitRe \o <<CommaRe, ws>>)
\* r"^(Th. v.|Theil von|Theil v.|Th. von)\s[0-9]+\s?[a-zA-Z]?\sneben\s[0-9]+"
NeighbourRe == Cat(<<Bol, PrefixRe, ws>> \o NumberRe \o <<ws, NebenRe, ws, Plus(Cls(Digit))>>)

\* 'Log: Alte Hausnummer wurde als neue Hausnummer detektiert. Alte Hausnummer
\* wurde nicht aufbereitet.'
LogText ==
    <<"L", "o", "g", ":", " ", "A", "l", "t", "e", " ", "H", "a", "u", "s", 
      "n", "u", "m", "m", "e", "r", " ", "w", "u", "r", "d", "e", " ", "a", 
      "l", "s", " ", "n", "e", "u", "e", " ", "H", "a", "u", "s", "n", "u", 
      "m", "m", "e", "r", " ", "d", "e", "t", "e", "k", "t", "i", "e", "r", 
      "t", ".", " ", "A", "l", "t", "e", " ", "H", "a", "u", "s", "n", "u", 
      "m", "m", "e", "r", " ", "w", "u", "r", "d", "e", " ", "n", "i", "c", 
      "h", "t", " ", "a", "u", "f", "b", "e", "r", "e", "i", "t", "e", "t", 
      ".">>

\* x in l, for a list l
PyIn(x, l) == \E n \in DOMAIN l.v : l.v[n] = x

\* "1257", "1257 A", "1052, 1053, 1054", "1097 / 1096", "827 + 827 A", "1250 u. 1251"
RuleSimple(t, is_bann) ==
    Series(<<StrList(re_split(SimpleSplitRe, t, 0)), None, None, Bool(FALSE), is_bann>>)

\* "48 A (Bann)"
RuleBannPostfix(t, is_bann) ==
    Series(<<StrList(ButLast(re_split(BannPostfixSplitRe, t, 0))), None, None, Bool(FALSE), is_bann>>)

\* number without the "," or the blank it ends with
Trimmed(number) == IF re_search(TrailingRe, number) # NoMatch THEN ButLast(number) ELSE number

\* "441 A u. Th. v. 440 neben 441 A"; m is the match of the number
PostfixResult(t, is_bann, m) ==
    IF m = NoMatch THEN Raise("AttributeError")
    ELSE Series(<<StrList(<<Trimmed(group(t, m))>>), Str(From(t, Len(group(t, m)))), None,
                  Bool(FALSE), is_bann>>)
RulePostfix(t, is_bann) == PostfixResult(t, is_bann, re_search(PostfixNumberRe, t))

\* the rule without the case of "neben"
PartOfResult_NoNeben(is_bann, number_split, neben) ==
    Series(<<StrList(From(number_split, 1)), None, None, Bool(TRUE), is_bann>>)

\* "Theil von 744 A neben 745", "Theil von 126, 124"
PartOfResult(is_bann, number_split, neben) ==
    IF neben # NoMatch
    THEN IF ~InRange(number_split, 1) THEN Raise("IndexError")
         ELSE Series(<<StrList(<<At(number_split, 1)>>), Str(<<"n", "e", "b", "e", "n">>),
                       Str(Last(number_split)), Bool(TRUE), is_bann>>)
    ELSE Series(<<StrList(From(number_split, 1)), None, None, Bool(TRUE), is_bann>>)
RulePartOf(t, is_bann) == PartOfResult(is_bann, re_split(PartOfSplitRe, t, 0), re_search(NebenRe, t))

\* old_house_number[re.search(token, old_house_number).start():]
SupplementOf(t, m) == IF m = NoMatch THEN Raise("AttributeError") ELSE Str(From(t, m.start))
SupplementAt(t, c) == IF c.err THEN Raise("re.error") ELSE SupplementOf(t, re_search(c.r, t))
SupplementFrom(token, t) == SupplementAt(t, re_compile(token))

\* the index at which "for index in range(1, len(number_split))" stops: the
\* first index whose entry is not numeric, else the last index
RECURSIVE LoopIndex(_, _)
LoopIndex(number_split, index) ==
    IF ~isnumeric(At(number_split, index)) \/ index = Len(number_split) - 1 THEN index
    ELSE LoopIndex(number_split, index + 1)

\* the entries number_split[1..] appended before the loop stops at index
RunUpTo(number_split, index) ==
    Sub(number_split, 1, IF isnumeric(At(number_split, index)) THEN index + 1 ELSE index)
NumericRun(number_split) == RunUpTo(number_split, LoopIndex(number_split, 1))

\* the neighbouring number of the rule with prefix and arbitrary postfix
NeighbouringOf(t, neighbouring_match) ==
    IF neighbouring_match = NoMatch THEN None
    ELSE Str(Last(re_split(ws, group(t, neighbouring_match), 0)))
Neighbouring(t) == NeighbouringOf(t, re_search(NeighbourRe, t))

\* number and supplement of the rule with prefix and arbitrary postfix, or the
\* exception raised
Pair(number, supplement) == [t |-> "pair", number |-> number, supplement |-> supplement]
WithSupplement(number, supplement) == IF IsRaise(supplement) THEN supplement ELSE Pair(number, supplement)

\* the branch "else": number_split is the split with maxsplit=2
FirstNumberOnly(number_split) ==
    IF ~InRange(number_split, 2) THEN Raise("IndexError")
    ELSE Pair(StrList(<<At(number_split, 1)>>), Str(At(number_split, 2)))

PostfixNumberOf(t, number_split) ==
    IF ~InRange(number_split, 2) THEN Raise("IndexError")
    ELSE IF Len(At(number_split, 2)) = 1 /\ isalpha(At(number_split, 2))
    THEN \* "Theil von 1045 A und B"
         IF ~InRange(number_split, 3) THEN Raise("IndexError")
         ELSE WithSupplement(StrList(<<At(number_split, 1) \o <<" ">> \o At(number_split, 2)>>),
                             SupplementFrom(At(number_split, 3), t))
    ELSE IF isnumeric(At(number_split, 2))
    THEN \* "Theil von 552, 551, Hinterhaus"
         WithSupplement(StrList(NumericRun(number_split)),
                        SupplementFrom(At(number_split, LoopIndex(number_split, 1)), t))
    ELSE FirstNumberOnly(re_split(PartOfPostfixSplitRe, t, 2))
PartOfPostfixNumber(t) == PostfixNumberOf(t, re_split(PartOfPostfixSplitRe, t, 0))

\* "Theil von 1084, zweites Haus von 1085", "Theil von 552, 551, Vorderhaus"
PartOfPostfixResult(t, is_bann, ns) ==
    IF IsRaise(ns) THEN ns
    ELSE Series(<<ns.number, ns.supplement, Neighbouring(t), Bool(TRUE), is_bann>>)
RulePartOfPostfix(t, is_bann) == PartOfPostfixResult(t, is_bann, PartOfPostfixNumber(t))

\* the first rule of the body of "while True" whose pattern matches
RuleOf(t) ==
    IF re_match(SimpleRe, t) # NoMatch THEN "simple"
    ELSE IF re_match(BannPostfixRe, t) # NoMatch THEN "bann postfix"
    ELSE IF re_match(PostfixRe, t) # NoMatch THEN "postfix"
    ELSE IF re_match(PartOfRe, t) # NoMatch THEN "part of"
    ELSE IF re_match(PartOfPostfixRe, t) # NoMatch THEN "part of postfix"
    ELSE "none"

\* the result of the rule, the value NoRule when no pattern matches
NoRule == [t |-> "NoRule"]
ApplyRule(rule, t, is_bann) ==
    CASE rule = "simple" -> RuleSimple(t, is_bann)
      [] rule = "bann postfix" -> RuleBannPostfix(t, is_bann)
      [] rule = "postfix" -> RulePostfix(t, is_bann)
      [] rule = "part of" -> RulePartOf(t, is_bann)
      [] rule = "part of postfix" -> RulePartOfPostfix(t, is_bann)
      [] OTHER -> NoRule
Classify(t, is_bann) == ApplyRule(RuleOf(t), t, is_bann)

\* is_bann after the search for "Bann" or "bann"
IsBann(t) == Bool(re_search(BannRe, t) # NoMatch)

\* the test against the first detected number only
FalsePositiveTest_FirstOnly(result, new_house_number) ==
    IF result.v[1].v # <<>> /\ result.v[1].v[1] = new_house_number
    THEN Series(<<None, Str(LogText), None, None, None>>)
    ELSE result

\* "Test if detected old house number is new house number"
FalsePositiveTest(result, new_house_number) ==
    IF PyIn(new_house_number, result.v[1])
    THEN Series(<<None, Str(LogText), None, None, None>>)
    ELSE result

\* what follows the loop: result is what the loop body computed
AfterLoop(result, is_bann, new_house_number) ==
    IF result = NoRule THEN Series(<<None, None, None, None, is_bann>>)
    ELSE IF IsRaise(result) THEN result
    ELSE FalsePositiveTest(result, new_house_number)

\* the function for a text, with is_bann computed
SplitText(t, is_bann, new_house_number) == AfterLoop(Classify(t, is_bann), is_bann, new_house_number)

\* the function with the empty text treated like a missing one
split_old_house_number_EmptyIsNull(old_house_number, new_house_number) ==
    IF isna(old_house_number) \/ old_house_number = Str(<<>>) THEN Series(<<None, None, None, None, None>>)
    ELSE SplitText(old_house_number.v, IsBann(old_house_number.v), new_house_number)

split_old_house_number(old_house_number, new_house_number) ==
    IF isna(old_house_number) THEN Series(<<None, None, None, None, None>>)
    ELSE SplitText(old_house_number.v, IsBann(old_house_number.v), new_house_number)

(***************************************************************************)
(* get_new_house_number                                                    *)
(***************************************************************************)
\* str.split(sep) for a one-character separator
str_split(t, sep) == re_split(Chr(sep), t, 0)

\* r":"
ColonRe == Chr(":")
\* r"[A-Za-zäöü.\-\s]+[0-9]+[a-z]?$"
AddressRe == Cat(<<Plus(Cls(Alpha \cup {"ä", "ö", "ü", ".", "-"} \cup Space)), Plus(Cls(Digit)),
                   Opt(Cls(Lower)), Eol>>)
\* r"[0-9]+[a-z]?$"
TrailingNumberRe == Cat(<<Plus(Cls(Digit)), Opt(Cls(Lower)), Eol>>)
\* r"[0-9]+[a-z]?"
FirstNumberRe == Cat(<<Plus(Cls(Digit)), Opt(Cls(Lower))>>)

\* m.group() of a search in t, AttributeError when the search found nothing
GroupOf(t, m) == IF m = NoMatch THEN Raise("AttributeError") ELSE Str(group(t, m))

\* the branch for a title that matches the simple address pattern
AddressNumberOf(address, address_split) ==
    IF Len(address_split) = 1 THEN GroupOf(address, re_search(TrailingNumberRe, address))
    ELSE Str(Last(address_split))
AddressNumber(address) == AddressNumberOf(address, str_split(address, " "))

\* "Search first appearance of a number ... Else, return None."
FirstNumberOf(t, house_number) == IF house_number = NoMatch THEN None ELSE Str(group(t, house_number))

\* the function after the test for ":"
TitleNumberOf(t, address_match) ==
    IF address_match # NoMatch THEN AddressNumber(group(t, address_match))
    ELSE FirstNumberOf(t, re_search(FirstNumberRe, t))

get_new_house_number(dossier_title) ==
    IF ~IsStr(dossier_title) THEN Raise("TypeError")
    ELSE IF re_search(ColonRe, dossier_title.v) # NoMatch THEN None
    ELSE TitleNumberOf(dossier_title.v, re_match(AddressRe, dossier_title.v))

(***************************************************************************)
(* get_first_entry: my_list[0], None when that raises                      *)
(***************************************************************************)
get_first_entry(my_list) ==
    IF my_list.t \in {"list", "tuple"} /\ my_list.v # <<>> THEN my_list.v[1]
    ELSE IF my_list.t = "str" /\ my_list.v # <<>> THEN Str(<<my_list.v[1]>>)
    ELSE None

(***************************************************************************)
(* ast.literal_eval of a text over the characters of the model's           *)
(* correction tables: "[" "]" "'" "," " ", the digits and the letter "A"   *)
(* (a name outside a string literal).  The values are int, str ('..' and   *)
(* triple-quoted; adjacent string literals concatenate), list and tuple;   *)
(* everything else raises SyntaxError or ValueError.                       *)
(***************************************************************************)
RECURSIVE SkipBlank(_, _)
SkipBlank(t, i) == IF i < Len(t) /\ t[i + 1] = " " THEN SkipBlank(t, i + 1) ELSE i

RECURSIVE ScanWhile(_, _, _)
\* the first position from i whose character is not in cs
ScanWhile(t, i, cs) == IF i < Len(t) /\ t[i + 1] \in cs THEN ScanWhile(t, i + 1, cs) ELSE i

Failed == [err |-> TRUE, v |-> None, next |-> 0]
Parsed(v, next) == [err |-> FALSE, v |-> v, next |-> next]

\* the int a run of digits denotes; a leading 0 is allowed in "0", "00", ...
\* only
NumberValue(digits) ==
    IF digits[1] # "0" THEN Parsed(PyInt(digits), 0)
    ELSE IF \A n \in DOMAIN digits : digits[n] = "0" THEN Parsed(PyInt(<<"0">>), 0)
    ELSE Failed

\* the number whose digits end at stop; a letter must not follow
NumberChecked(t, stop, n) ==
    IF n.err \/ (stop < Len(t) /\ t[stop + 1] \in Alpha) THEN Failed ELSE Parsed(n.v, stop)
NumberAt(t, i, stop) == NumberChecked(t, stop, NumberValue(Sub(t, i, stop)))

\* three quotes from position i
Triple(t, i) == i + 3 <= Len(t) /\ \A n \in 1..3 : t[i + n] = "'"

RECURSIVE ScanTriple(_, _)
\* the first position from i at which three quotes stand, Len(t) if none
ScanTriple(t, i) == IF i >= Len(t) \/ Triple(t, i) THEN i ELSE ScanTriple(t, i + 1)

RECURSIVE ParseStrings(_, _, _), StringClosed(_, _, _, _, _), StringNext(_, _, _, _)
\* one or more adjacent string literals ('..' or triple-quoted) from the quote
\* at position i; acc is the text of the literals before
ParseStrings(t, i, acc) ==
    IF Triple(t, i) THEN StringClosed(t, acc, i + 3, ScanTriple(t, i + 3), 3)
    ELSE StringClosed(t, acc, i + 1, ScanWhile(t, i + 1, {t[n] : n \in DOMAIN t} \ {"'"}), 1)

\* the literal opened before position open closes at close with q quotes
StringClosed(t, acc, open, close, q) ==
    IF close >= Len(t) THEN Failed
    ELSE StringNext(t, acc \o Sub(t, open, close), close + q, SkipBlank(t, close + q))

\* text is the literals up to position next; after is the next token
StringNext(t, text, next, after) ==
    IF after < Len(t) /\ t[after + 1] = "'" THEN ParseStrings(t, after, text)
    ELSE Parsed(Str(text), next)

RECURSIVE ParseExpr(_, _), ParseElements(_, _, _), ElementParsed(_, _, _), ElementNext(_, _, _, _)
\* an expression from position i (blanks skipped by the caller)
ParseExpr(t, i) ==
    IF i >= Len(t) THEN Failed
    ELSE IF t[i + 1] \in Digit THEN NumberAt(t, i, ScanWhile(t, i, Digit))
    ELSE IF t[i + 1] = "'" THEN ParseStrings(t, i, <<>>)
    ELSE IF t[i + 1] = "[" THEN ParseElements(t, SkipBlank(t, i + 1), <<>>)
    ELSE Failed

\* the elements of a list display up to its "]"; position i is after the "["
\* or after a comma, blanks skipped
ParseElements(t, i, items) ==
    IF i >= Len(t) THEN Failed
    ELSE IF t[i + 1] = "]" THEN Parsed(List(items), i + 1)
    ELSE ElementParsed(t, items, ParseExpr(t, i))

ElementParsed(t, items, e) ==
    IF e.err THEN Failed ELSE ElementNext(t, items, e, SkipBlank(t, e.next))

ElementNext(t, items, e, after) ==
    IF after >= Len(t) THEN Failed
    ELSE IF t[after + 1] = "," THEN ParseElements(t, SkipBlank(t, after + 1), Append(items, e.v))
    ELSE IF t[after + 1] = "]" THEN Parsed(List(Append(items, e.v)), after + 1)
    ELSE Failed

RECURSIVE ParseTop(_, _, _), TopParsed(_, _, _), TopNext(_, _, _, _)
\* the expression list of the whole text: one expression, or a tuple when a
\* comma follows an expression
ParseTop(t, i, items) == TopParsed(t, items, ParseExpr(t, i))

TopParsed(t, items, e) ==
    IF e.err THEN Failed ELSE TopNext(t, items, e, SkipBlank(t, e.next))

TopNext(t, items, e, after) ==
    IF after >= Len(t) THEN Parsed(IF items = <<>> THEN e.v ELSE Tuple(Append(items, e.v)), after)
    ELSE IF t[after + 1] # "," THEN Failed
    ELSE IF SkipBlank(t, after + 1) >= Len(t) THEN Parsed(Tuple(Append(items, e.v)), Len(t))
    ELSE ParseTop(t, SkipBlank(t, after + 1), Append(items, e.v))

\* the value of a parse, SyntaxError (or ValueError) when there is none
Evaluated(p) == IF p.err THEN Raise("SyntaxError") ELSE p.v

literal_eval(node_or_string) ==
    IF ~IsStr(node_or_string) THEN Raise("ValueError")
    ELSE Evaluated(ParseTop(node_or_string.v, SkipBlank(node_or_string.v, 0), <<>>))

(***************************************************************************)
(* correct_old_house_number.  df_corrections is the sequence of the rows   *)
(* of oldHousenumberCorrections.csv; an empty cell is NaN.                 *)
(***************************************************************************)
\* 'manuell erfasste Bemerkung: '
RemarkText ==
    <<"m", "a", "n", "u", "e", "l", "l", " ", "e", "r", "f", "a", "s", "s", 
      "t", "e", " ", "B", "e", "m", "e", "r", "k", "u", "n", "g", ":", " ">>
\* ' , zusätzliche manuell erfasste Bemerkung: '
AdditionalRemarkText ==
    <<" ", ",", " ", "z", "u", "s", "ä", "t", "z", "l", "i", "c", "h", "e", 
      " ", "m", "a", "n", "u", "e", "l", "l", " ", "e", "r", "f", "a", "s", 
      "s", "t", "e", " ", "B", "e", "m", "e", "r", "k", "u", "n", "g", ":", 
      " ">>

\* df_corrections[df_corrections['dossierId']==dossierid]
RowsOf(df_corrections, dossierid) == SelectSeq(df_corrections, LAMBDA r : r.dossierId = dossierid)
\* pd.notnull(rows[column]).any()
AnyNotNull(rows, column) == \E n \in DOMAIN rows : ~isna(rows[n][column])
\* rows[column].iloc[0]
Iloc0(rows, column) == rows[1][column]

\* str + str; TypeError for another operand
Concat(a, b) == IF IsStr(a) /\ IsStr(b) THEN Str(a.v \o b.v) ELSE Raise("TypeError")

\* "Replace oldHousenumberNumber if corrected value exist"
CorrectedNumber(rows, oldhousenumber_number) ==
    IF AnyNotNull(rows, "oldHouseNumberNumberCorr")
    THEN literal_eval(Iloc0(rows, "oldHouseNumberNumberCorr"))
    ELSE oldhousenumber_number

\* "Replace ... if corrected value exist", for oldHousenumberIsPartOfCorr and
\* oldHousenumberNeighbouringNumberCorr
Replaced(rows, column, old) ==
    IF AnyNotNull(rows, column) THEN Iloc0(rows, column) ELSE old

\* the supplement replaced by the remark instead of complemented
ComplementedSupplement_Replace(rows, oldhousenumber_supplement) ==
    IF AnyNotNull(rows, "oldHousenumberSupplementAddition")
    THEN Concat(Str(RemarkText), Iloc0(rows, "oldHousenumberSupplementAddition"))
    ELSE oldhousenumber_supplement

\* "Complement oldHousenumberSupplement if corrected value exist"
ComplementedSupplement(rows, oldhousenumber_supplement) ==
    IF AnyNotNull(rows, "oldHousenumberSupplementAddition")
    THEN IF isna(oldhousenumber_supplement)
         THEN Concat(Str(RemarkText), Iloc0(rows, "oldHousenumberSupplementAddition"))
         ELSE Concat(oldhousenumber_supplement,
                     Concat(Str(AdditionalRemarkText), Iloc0(rows, "oldHousenumberSupplementAddition")))
    ELSE oldhousenumber_supplement

\* the test "dossierid not in df_corrections['dossierId'].tolist()"
HasRow(dossierid, df_corrections) == \E n \in DOMAIN df_corrections : df_corrections[n].dossierId = dossierid

\* the return for an id of the table; an exception raised for a field is
\* raised by the function
CorrectedSeries(number, ispartof, neighbouringnumber, supplement) ==
    IF IsRaise(number) THEN number
    ELSE IF IsRaise(supplement) THEN supplement
    ELSE Series(<<number, ispartof, neighbouringnumber, supplement, Bool(TRUE)>>)

\* the function for an id of the table, dossierid_corrections its rows
CorrectWith(dossierid_corrections, oldhousenumber_number, oldhousenumber_ispartof, oldhousenumber_neighbouringnumber, oldhousenumber_supplement) ==
    CorrectedSeries(CorrectedNumber(dossierid_corrections, oldhousenumber_number),
                    Replaced(dossierid_corrections, "oldHousenumberIsPartOfCorr", oldhousenumber_ispartof),
                    Replaced(dossierid_corrections, "oldHousenumberNeighbouringNumberCorr",
                             oldhousenumber_neighbouringnumber),
                    ComplementedSupplement(dossierid_corrections, oldhousenumber_supplement))

correct_old_house_number(dossierid, oldhousenumber_number, oldhousenumber_ispartof, oldhousenumber_neighbouringnumber, oldhousenumber_supplement, df_corrections) ==
    IF ~HasRow(dossierid, df_corrections)
    THEN Series(<<oldhousenumber_number, oldhousenumber_ispartof, oldhousenumber_neighbouringnumber,
                  oldhousenumber_supplement, Bool(FALSE)>>)
    ELSE CorrectWith(RowsOf(df_corrections, dossierid), oldhousenumber_number, oldhousenumber_ispartof,
                     oldhousenumber_neighbouringnumber, oldhousenumber_supplement)

(***************************************************************************)
(* The run of __main__: four DataFrame.apply passes over the rows of       *)
(* all_dossiers, each followed by the assignment of the new columns, then  *)
(* the merge and the output files.  row is the index of the next row of    *)
(* the pass at pc, applied the values the pass has computed so far.  An    *)
(* exception raised for a row is not caught: it ends the process.          *)
(***************************************************************************)
Flatten(texts) ==
    LET F[n \in 0..Len(texts)] == IF n = 0 THEN <<>> ELSE F[n - 1] \o texts[n]
    IN F[Len(texts)]

\* all sequences of at most n elements of S
SeqsUpTo(S, n) == UNION {[1..m -> S] : m \in 0..n}

\* one step of a pass: value is what the lambda returns for the next row
ApplyRow(value) ==
    /\ row < Len(all_dossiers)
    /\ IF IsRaise(value)
       THEN /\ pc' = "aborted"
            /\ ret' = value
            /\ UNCHANGED <<row, applied>>
       ELSE /\ applied' = Append(applied, value)
            /\ row' = row + 1
            /\ UNCHANGED <<pc, ret>>
    /\ UNCHANGED <<args, ret2, all_dossiers, corrections>>

\* the end of a pass: the columns computed for each row are assigned and the
\* next pass starts
AssignColumns(columns, next) ==
    /\ row = Len(all_dossiers)
    /\ all_dossiers' = [n \in DOMAIN all_dossiers |-> columns[n] @@ all_dossiers[n]]
    /\ pc' = next
    /\ row' = 0
    /\ applied' = <<>>
    /\ UNCHANGED <<args, ret, ret2, corrections>>

NextRow == all_dossiers[row + 1]

\* all_dossiers['housenumberFromTitle'] = all_dossiers.apply(...)
NewHouseNumberRow ==
    /\ pc = "get_new_house_number"
    /\ ApplyRow(get_new_house_number(NextRow.title))
NewHouseNumberAssign ==
    /\ pc = "get_new_house_number"
    /\ AssignColumns([n \in DOMAIN applied |-> [housenumberFromTitle |-> applied[n]]], "split_old_house_number")

\* all_dossiers[['oldHousenumberNumber', ...]] = all_dossiers.apply(...)
SplitRow ==
    /\ pc = "split_old_house_number"
    /\ ApplyRow(split_old_house_number(NextRow.oldHousenumber, NextRow.housenumberFromTitle))
SplitAssign ==
    /\ pc = "split_old_house_number"
    /\ AssignColumns([n \in DOMAIN applied |->
                         [oldHousenumberNumber |-> applied[n].v[1], oldHousenumberSupplement |-> applied[n].v[2],
                          oldHousenumberNeighbouringNumber |-> applied[n].v[3],
                          oldHousenumberIsPartOf |-> applied[n].v[4], oldHousenumberIsBann |-> applied[n].v[5]]],
                     "correct_old_house_number")

\* corrections = pd.read_csv(...); all_dossiers[[...]] = all_dossiers.apply(...)
CorrectRow ==
    /\ pc = "correct_old_house_number"
    /\ ApplyRow(correct_old_house_number(NextRow.dossierId, NextRow.oldHousenumberNumber,
                                         NextRow.oldHousenumberIsPartOf,
                                         NextRow.oldHousenumberNeighbouringNumber,
                                         NextRow.oldHousenumberSupplement, corrections))
CorrectAssign ==
    /\ pc = "correct_old_house_number"
    /\ AssignColumns([n \in DOMAIN applied |->
                         [oldHousenumberNumber |-> applied[n].v[1], oldHousenumberIsPartOf |-> applied[n].v[2],
                          oldHousenumberNeighbouringNumber |-> applied[n].v[3],
                          oldHousenumberSupplement |-> applied[n].v[4],
                          oldHousenumberIsCorrected |-> applied[n].v[5]]],
                     "get_first_entry")

\* all_dossiers['oldHousenumberNumberFirst'] = all_dossiers.apply(...)
FirstEntryRow ==
    /\ pc = "get_first_entry"
    /\ ApplyRow(get_first_entry(NextRow.oldHousenumberNumber))
FirstEntryAssign ==
    /\ pc = "get_first_entry"
    /\ AssignColumns([n \in DOMAIN applied |-> [oldHousenumberNumberFirst |-> applied[n]]], "to_csv")

\* pd.merge, to_csv, to_json: the enriched rows are written
WriteOutput ==
    /\ pc = "to_csv"
    /\ pc' = "done"
    /\ UNCHANGED <<args, ret, ret2, all_dossiers, corrections, row, applied>>

\* data/stabs_dossier.csv and oldHousenumberCorrections.csv of the run
MaxDossiers == 2
DossierIds == <<"d1", "d2", "d3">>
Titles == {Str(<<"M", "a", "l", "z", "g", "a", "s", "s", "e", " ", "1", "2">>),
           Str(<<"G", "a", "s", "s", "e", ":", " ", "x">>)}
OldHousenumbers == {NaN, Str(<<"1", "2">>), Str(<<"4", "8", " ", "A", ",", " ", "4", "9">>)}
\* the cells of a row of the correction table: [7], a list that is not closed,
\* an empty cell
WellFormedCorr == Str(<<"[", "'", "7", "'", "]">>)
MalformedCorr == Str(<<"[", "'", "7", "'">>)
CorrectionRow(id, number, ispartof, neighbour, addition) ==
    [dossierId |-> id, oldHouseNumberNumberCorr |-> number, oldHousenumberIsPartOfCorr |-> ispartof,
     oldHousenumberNeighbouringNumberCorr |-> neighbour, oldHousenumberSupplementAddition |-> addition]
CorrectionRows(ids) ==
    {CorrectionRow(id, WellFormedCorr, NaN, NaN, NaN) : id \in ids}
    \cup {CorrectionRow(id, MalformedCorr, NaN, NaN, NaN) : id \in ids}
    \cup {CorrectionRow(id, NaN, Bool(TRUE), Str(<<"9">>), NaN) : id \in ids}
    \cup {CorrectionRow(id, NaN, NaN, NaN, Str(<<"r">>)) : id \in ids}
    \cup {CorrectionRow(id, NaN, NaN, NaN, NaN) : id \in ids}

(***************************************************************************)
(* The functions called on their own: args holds the arguments, ret the    *)
(* value returned or the exception raised.                                 *)
(***************************************************************************)
CallSplit ==
    /\ pc = "split_old_house_number()"
    /\ ret' = split_old_house_number(args.old_house_number, args.new_house_number)
    /\ pc' = "returned"
    /\ UNCHANGED <<args, ret2, all_dossiers, corrections, row, applied>>

CallNewHouseNumber ==
    /\ pc = "get_new_house_number()"
    /\ ret' = get_new_house_number(args.dossier_title)
    /\ pc' = "returned"
    /\ UNCHANGED <<args, ret2, all_dossiers, corrections, row, applied>>

CallCorrect ==
    /\ pc = "correct_old_house_number()"
    /\ ret' = correct_old_house_number(args.dossierid, args.oldhousenumber_number,
                                       args.oldhousenumber_ispartof,
                                       args.oldhousenumber_neighbouringnumber,
                                       args.oldhousenumber_supplement, corrections)
    /\ pc' = "returned"
    /\ UNCHANGED <<args, ret2, all_dossiers, corrections, row, applied>>

\* the function applied to its own output, with the same table
CallCorrectAgain ==
    /\ pc = "returned"
    /\ ~IsRaise(ret)
    /\ ret2' = correct_old_house_number(args.dossierid, ret.v[1], ret.v[2], ret.v[3], ret.v[4], corrections)
    /\ pc' = "returned again"
    /\ UNCHANGED <<args, ret, all_dossiers, corrections, row, applied>>

\* no run: the variables of the run for a function called on its own
NoRun ==
    /\ ret = None
    /\ ret2 = None
    /\ all_dossiers = <<>>
    /\ row = 0
    /\ applied = <<>>

(***************************************************************************)
(* split_old_house_number on the texts made of a prefix and at most        *)
(* MaxPieces pieces, and on a missing text                                 *)
(***************************************************************************)
MaxPieces == 2
SplitPrefixes == {<<>>,
                  <<"T", "h", "e", "i", "l", " ", "v", "o", "n", " ">>,
                  <<"T", "h", ".", " ", "v", ".", " ">>}
SplitPieces == {<<"1", "2">>,
                <<"3", ",", " ">>,
                <<"4", "8", " ", "A">>,
                <<",", " ">>,
                <<" ">>,
                <<" ", "n", "e", "b", "e", "n", " ">>,
                <<"x", "y", "z">>,
                <<" ", "(", "B", "a", "n", "n", ")">>,
                <<" ", "(", "x">>}
SplitTexts == {prefix \o Flatten(pieces) : prefix \in SplitPrefixes, pieces \in SeqsUpTo(SplitPieces, MaxPieces)}
NewHouseNumbers == {None, Str(<<"1", "2">>)}

InitSplit ==
    /\ pc = "split_old_house_number()"
    /\ args \in [old_house_number : {None, NaN} \cup {Str(t) : t \in SplitTexts},
                 new_house_number : NewHouseNumbers]
    /\ corrections = <<>>
    /\ NoRun

SpecSplit == InitSplit /\ [][CallSplit]_vars

(***************************************************************************)
(* split_old_house_number on the plain number lists: at most MaxTokens     *)
(* number-tokens joined by the separators                                  *)
(***************************************************************************)
MaxTokens == 3
NumberTokens == {<<"1", "2">>,
                 <<"4", "8", "A">>}
Separators == {<<",", " ">>,
               <<" ", "/", " ">>,
               <<" ", "+", " ">>,
               <<" ", "u", ".", " ">>}

\* tokens[1] seps[1] tokens[2] ... tokens[n]
RECURSIVE Joined(_, _, _)
Joined(tokens, seps, n) ==
    IF n = 1 THEN tokens[1] ELSE Joined(tokens, seps, n - 1) \o seps[n - 1] \o tokens[n]

InitList ==
    /\ pc = "split_old_house_number()"
    /\ \E n \in 1..MaxTokens : \E tokens \in [1..n -> NumberTokens] : \E seps \in [1..(n - 1) -> Separators] :
       \E new \in NewHouseNumbers \cup {Str(<<"5">>)} :
           args = [old_house_number |-> Str(Joined(tokens, seps, n)), new_house_number |-> new,
                   tokens |-> tokens, seps |-> seps]
    /\ corrections = <<>>
    /\ NoRun

SpecList == InitList /\ [][CallSplit]_vars

(***************************************************************************)
(* split_old_house_number on the texts with a prefix, a number part and a  *)
(* postfix of at most MaxWords words: the number part is a number and a    *)
(* letter ("12 A") or two numbers ("12, 3", "12 3")                        *)
(***************************************************************************)
MaxWords == 2
PrefixPhrases == {<<"T", "h", ".", " ", "v", ".">>,
                  <<"T", "h", "e", "i", "l", " ", "v", "o", "n">>,
                  <<"T", "h", "e", "i", "l", " ", "v", ".">>,
                  <<"T", "h", ".", " ", "v", "o", "n">>}
LetterParts == {<<"1", "2", " ", "A">>,
                <<"3", " ", "v">>}
NumberParts == {<<"1", "2", ",", " ", "3">>,
                <<"1", "2", " ", "3">>}
FirstWords == {<<"v", "o", "n">>,
               <<"H", "i", "n", "t", "e", "r", "h", "a", "u", "s">>,
               <<"v", ".">>}
Words == {<<"v", "o", "n">>,
          <<"H", "i", "n", "t", "e", "r", "h", "a", "u", "s">>,
          <<"v", ".">>,
          <<"1", "3">>}
PostfixSeparators == {<<" ">>,
                      <<",", " ">>}

\* the words of a postfix joined by blanks
RECURSIVE JoinWords(_, _)
JoinWords(words, n) == IF n = 1 THEN words[1] ELSE JoinWords(words, n - 1) \o <<" ">> \o words[n]

InitPartOf ==
    /\ pc = "split_old_house_number()"
    /\ \E prefix \in PrefixPhrases : \E shape \in {"letter", "numbers"} :
       \E part \in (IF shape = "letter" THEN LetterParts ELSE NumberParts) :
       \E sep \in PostfixSeparators : \E first \in FirstWords : \E more \in SeqsUpTo(Words, MaxWords - 1) :
           args = [old_house_number |-> Str(prefix \o <<" ">> \o part \o sep
                                             \o JoinWords(<<first>> \o more, 1 + Len(more))),
                   new_house_number |-> None, shape |-> shape,
                   postfix |-> JoinWords(<<first>> \o more, 1 + Len(more))]
    /\ corrections = <<>>
    /\ NoRun

SpecPartOf == InitPartOf /\ [][CallSplit]_vars

(***************************************************************************)
(* split_old_house_number on the texts with a prefix and at most           *)
(* MaxPartTokens number-tokens separated by ", ", with or without " neben "*)
(* and a trailing number-token                                             *)
(***************************************************************************)
MaxPartTokens == 2
PartTokens == {<<"1", "2">>,
               <<"3">>,
               <<"4", "8", "A">>}

InitPartOfList ==
    /\ pc = "split_old_house_number()"
    /\ \E prefix \in PrefixPhrases : \E n \in 1..MaxPartTokens : \E tokens \in [1..n -> PartTokens] :
       \E neighbour \in {None} \cup {Str(t) : t \in PartTokens} : \E new \in NewHouseNumbers \cup {Str(<<"5">>)} :
           args = [old_house_number |->
                       Str(prefix \o <<" ">> \o Joined(tokens, [m \in 1..(n - 1) |-> <<",", " ">>], n)
                           \o (IF neighbour = None THEN <<>>
                               ELSE <<" ", "n", "e", "b", "e", "n", " ">> \o neighbour.v)),
                   new_house_number |-> new, tokens |-> tokens, neighbour |-> neighbour]
    /\ corrections = <<>>
    /\ NoRun

SpecPartOfList == InitPartOfList /\ [][CallSplit]_vars

(***************************************************************************)
(* get_new_house_number on the titles of at most MaxTitlePieces pieces     *)
(***************************************************************************)
MaxTitlePieces == 3
TitlePieces == {<<"S", "t", ".", " ">>,
                <<"A", "l", "b", "a", "n", "-", "T", "a", "l">>,
                <<" ">>,
                <<"1", "0">>,
                <<"2", "a">>,
                <<":">>,
                <<",", " ">>}

InitTitle ==
    /\ pc = "get_new_house_number()"
    /\ args \in [dossier_title : {Str(Flatten(pieces)) : pieces \in SeqsUpTo(TitlePieces, MaxTitlePieces)}]
    /\ corrections = <<>>
    /\ NoRun

SpecTitle == InitTitle /\ [][CallNewHouseNumber]_vars

(***************************************************************************)
(* correct_old_house_number, and the function applied to its own output,   *)
(* for the dossier "d1" and the tables of at most MaxRows rows              *)
(***************************************************************************)
MaxRows == 2

InitCorrect ==
    /\ pc = "correct_old_house_number()"
    /\ args \in [dossierid : {"d1"},
                 oldhousenumber_number : {None, StrList(<<<<"1", "2">>>>)},
                 oldhousenumber_ispartof : {None, Bool(FALSE)},
                 oldhousenumber_neighbouringnumber : {None},
                 oldhousenumber_supplement : {None, Str(<<"n", "e", "b", "e", "n">>)}]
    /\ corrections \in SeqsUpTo(CorrectionRows({"d1", "d2"}), MaxRows)
    /\ NoRun

NextCorrect == CallCorrect \/ CallCorrectAgain

SpecCorrect == InitCorrect /\ [][NextCorrect]_vars

(***************************************************************************)
(* The run on at most MaxDossiers dossiers and a correction table of at    *)
(* most one row                                                            *)
(***************************************************************************)
Init ==
    /\ pc = "get_new_house_number"
    /\ \E n \in 0..MaxDossiers : \E titles \in [1..n -> Titles] : \E numbers \in [1..n -> OldHousenumbers] :
           all_dossiers = [m \in 1..n |-> [dossierId |-> DossierIds[m], title |-> titles[m],
                                           oldHousenumber |-> numbers[m]]]
    /\ corrections \in SeqsUpTo(CorrectionRows({"d1", "d2"}), 1)
    /\ args = None
    /\ ret = None
    /\ ret2 = None
    /\ row = 0
    /\ applied = <<>>

Next ==
    \/ NewHouseNumberRow
    \/ NewHouseNumberAssign
    \/ SplitRow
    \/ SplitAssign
    \/ CorrectRow
    \/ CorrectAssign
    \/ FirstEntryRow
    \/ FirstEntryAssign
    \/ WriteOutput

Spec == Init /\ [][Next]_vars

(***************************************************************************)
(* Properties of split_old_house_number                                    *)
(***************************************************************************)
AllNone == Series(<<None, None, None, None, None>>)
OldText == args.old_house_number
Returned == pc = "returned"

\* C1: split_old_house_number never raises: for every text (or a missing one)
\* and every new house number it returns a result of five fields.
C1_NeverRaises == Returned => (ret.t = "Series" /\ Len(ret.v) = 5)

\* C2 as claimed: for a missing or an empty old house number all five fields
\* are null, isBann too.
C2_NullOrEmptyAllNull == (Returned /\ (isna(OldText) \/ OldText = Str(<<>>))) => ret = AllNone

\* C2 as amended: for a missing old house number all five fields are null; for
\* the empty text numbers, supplement, neighbouringNumber and isPartOf are
\* null and isBann is false.
C2_NullAllNullEmptyNotBann ==
    Returned => /\ isna(OldText) => ret = AllNone
                /\ OldText = Str(<<>>) => ret = Series(<<None, None, None, None, Bool(FALSE)>>)

C2_EmptyReturned == Returned /\ OldText = Str(<<>>) /\ ret.t = "Series" /\ ret.v[1] = None

\* the result of the classification rule that matched the text
RuleResult == Classify(OldText.v, IsBann(OldText.v))
RuleProducedNumbers == IsStr(OldText) /\ RuleResult.t = "Series" /\ IsList(RuleResult.v[1])
NewAmongNumbers ==
    /\ IsStr(args.new_house_number)
    /\ \E n \in 1..Len(RuleResult.v[1].v) : RuleResult.v[1].v[n].v = args.new_house_number.v

\* C3: when a rule produced numbers and the new house number is one of them,
\* the result is numbers, isPartOf, neighbouringNumber, isBann null and the
\* fixed diagnostic text as supplement; when the new house number is null or
\* not among the numbers, the result of the rule is returned unchanged.
C3_FalsePositiveRule ==
    (Returned /\ RuleProducedNumbers) =>
        IF NewAmongNumbers THEN ret = Series(<<None, Str(LogText), None, None, None>>)
        ELSE ret = RuleResult

C3_FalsePositiveDetected ==
    Returned /\ RuleProducedNumbers /\ NewAmongNumbers /\ ret.v[2] = Str(LogText)

\* a number-token: digits, optionally followed by one letter (the letter may
\* stand after one blank, as in "48 A")
NumberToken(t) ==
    \E d \in 1..Len(t) :
        /\ \A n \in 1..d : t[n] \in Digit
        /\ \/ Len(t) = d
           \/ Len(t) = d + 1 /\ t[d + 1] \in Alpha
           \/ Len(t) = d + 2 /\ t[d + 1] = " " /\ t[d + 2] \in Alpha

\* C4: every element of a non-null numbers field is a number-token.
C4_NumbersAreTokens ==
    (Returned /\ ret.t = "Series" /\ IsList(ret.v[1])) =>
        \A n \in 1..Len(ret.v[1].v) : IsStr(ret.v[1].v[n]) /\ NumberToken(ret.v[1].v[n].v)

NewAmongTokens ==
    IsStr(args.new_house_number) /\ \E n \in DOMAIN args.tokens : args.tokens[n] = args.new_house_number.v

\* C5: for number-tokens joined by ", ", " / ", " + " and " u. " and a new
\* house number that is not one of them, numbers is exactly the tokens in
\* their order, supplement and neighbouringNumber are null, isPartOf is false.
C5_ListRoundTrip ==
    (Returned /\ ~NewAmongTokens) =>
        /\ ret.t = "Series"
        /\ ret.v[1] = StrList(args.tokens)
        /\ ret.v[2] = None
        /\ ret.v[3] = None
        /\ ret.v[4] = Bool(FALSE)

C5_ThreeTokensSplit ==
    /\ Returned
    /\ ~NewAmongTokens
    /\ Len(args.tokens) = 3
    /\ args.seps = <<<<" ", "u", ".", " ">>, <<" ", "+", " ">>>>
    /\ ret.v[1] = StrList(args.tokens)
(***************************************************************************)
(* Properties of the correction overlay                                    *)
(***************************************************************************)
IdHasRow == HasRow(args.dossierid, corrections)
IdRows == RowsOf(corrections, args.dossierid)
IdHasAddition == IdHasRow /\ AnyNotNull(IdRows, "oldHousenumberSupplementAddition")

\* C6: correct_old_house_number returns isCorrected true exactly when the
\* dossier id has a row in the correction table; for an id without a row
\* numbers, isPartOf, neighbouringNumber and supplement are the inputs.
C6_IsCorrectedIffRow ==
    Returned =>
        /\ ret.t = "Series"
        /\ ret.v[5] = Bool(IdHasRow)
        /\ ~IdHasRow => /\ ret.v[1] = args.oldhousenumber_number
                        /\ ret.v[2] = args.oldhousenumber_ispartof
                        /\ ret.v[3] = args.oldhousenumber_neighbouringnumber
                        /\ ret.v[4] = args.oldhousenumber_supplement

\* C7 as claimed: the function applied to its own output with the same table
\* returns the same five fields as the first application.
C7_Idempotent == pc = "returned again" => ret2 = ret

\* C7 as amended: the second application returns the same numbers, isPartOf,
\* neighbouringNumber and isCorrected as the first; the supplement is the
\* same when the table holds no supplement addition for the id, otherwise it
\* is the first supplement followed by the separator and the addition again.
C7_IdempotentButSupplement ==
    pc = "returned again" =>
        /\ ret2.t = "Series"
        /\ ret2.v[1] = ret.v[1]
        /\ ret2.v[2] = ret.v[2]
        /\ ret2.v[3] = ret.v[3]
        /\ ret2.v[5] = ret.v[5]
        /\ ret2.v[4] = IF IdHasAddition
                       THEN Str(ret.v[4].v \o AdditionalRemarkText
                                \o Iloc0(IdRows, "oldHousenumberSupplementAddition").v)
                       ELSE ret.v[4]

C7_AdditionAppendedAgain ==
    /\ pc = "returned again"
    /\ IdHasAddition
    /\ ret2.t = "Series"
    /\ ret2.v[4] # ret.v[4]
    /\ ret2.v[1] = ret.v[1]

(***************************************************************************)
(* Properties of the run                                                   *)
(***************************************************************************)
\* the table has a row of dossier n whose number list is not well formed
HasMalformedRow(n) ==
    \E m \in DOMAIN corrections :
        /\ corrections[m].dossierId = all_dossiers[n].dossierId
        /\ corrections[m].oldHouseNumberNumberCorr = MalformedCorr
RunEnded == pc \in {"aborted", "done"}

\* C8: when the run has ended, every dossier whose id has no row with a
\* malformed number list has received its corrected fields and isCorrected.
C8_FaultOnlyItsDossier ==
    RunEnded =>
        \A n \in DOMAIN all_dossiers :
            ~HasMalformedRow(n) => "oldHousenumberIsCorrected" \in DOMAIN all_dossiers[n]

(***************************************************************************)
(* Properties of get_new_house_number                                      *)
(***************************************************************************)
\* digits, optionally followed by one letter
DigitsAndLetter(t) ==
    \E d \in 1..Len(t) :
        /\ \A n \in 1..d : t[n] \in Digit
        /\ Len(t) = d \/ (Len(t) = d + 1 /\ t[d + 1] \in Alpha)

\* C9: get_new_house_number returns null or a single number-token.
C9_NullOrNumberToken ==
    Returned => ret = None \/ (IsStr(ret) /\ DigitsAndLetter(ret.v))

(***************************************************************************)
(* Properties of the rule "part of" with a postfix                         *)
(***************************************************************************)
\* C10: in the rule "part of" with a postfix, for a number part of a number
\* and a letter or of numeric tokens, the supplement is the text from the
\* token after the number part on.
C10_SupplementAtToken ==
    (Returned /\ RuleOf(OldText.v) = "part of postfix" /\ ret.t = "Series") =>
        ret.v[2] = Str(args.postfix)
(***************************************************************************)
(* Properties of the rule "part of" without a postfix                      *)
(***************************************************************************)
\* C11: for a prefix phrase followed by number-tokens separated by ", " and a
\* new house number that is not one of them, isPartOf is true; when the text
\* ends with " neben " and a number-token, numbers is the token after the
\* prefix alone, supplement is "neben" and neighbouringNumber is the trailing
\* token; otherwise numbers is all the tokens in their order and supplement
\* and neighbouringNumber are null.
C11_PartOfList ==
    (Returned /\ ~NewAmongTokens) =>
        /\ ret.t = "Series"
        /\ ret.v[4] = Bool(TRUE)
        /\ IF args.neighbour # None
           THEN /\ ret.v[1] = StrList(<<args.tokens[1]>>)
                /\ ret.v[2] = Str(<<"n", "e", "b", "e", "n">>)
                /\ ret.v[3] = args.neighbour
           ELSE /\ ret.v[1] = StrList(args.tokens)
                /\ ret.v[2] = None
                /\ ret.v[3] = None

C11_NeighbourOfTwoTokens ==
    /\ Returned
    /\ ~NewAmongTokens
    /\ args.neighbour # None
    /\ Len(args.tokens) = 2
    /\ ret.t = "Series"
    /\ ret.v[1] = StrList(<<args.tokens[1]>>)
    /\ ret.v[3] = args.neighbour
====
